---------------------------- MODULE Spec2Model ----------------------------
(***************************************************************************)
(* A model of the weekly Salesforce opportunity reporter: main.py drives   *)
(* sf_client (authentication, token cache, retrying queries),              *)
(* opportunities (batched queries, touch aggregation, staleness, sort)     *)
(* and email_sender (delivery).  One run of main() is one behaviour.       *)
(***************************************************************************)
EXTENDS Naturals, Integers, Sequences, FiniteSets, TLC

(***************************************************************************)
(* Program constants.                                                      *)
(***************************************************************************)
MAX_RETRIES == 3

RETRY_BACKOFF == 2

BATCH_SIZE == 200

STALE_THRESHOLD_DAYS == 60

\* the threshold main() reports: "opportunities with 2+ human touches"
MIN_TOUCHES == 2

NON_HUMAN_LICENSES ==
    {"Salesforce Integration", "Salesforce API Only System Integrations",
     "Identity", "Automated Process"}

NON_HUMAN_USERNAMES == {"Automated Process"}

(***************************************************************************)
(* Bounds of the model.                                                    *)
(***************************************************************************)
\* number of opportunities of the large data set: more than one batch
BigN == 201

\* the small data sets are numbered 0..MaxSmall
MaxSmall == 3

\* sessions the remote source lets expire during one run
MaxExpiries == 3

\* activity records of the drawn task query results
MaxTasks == 3

\* opportunities of the largest organisation a batched query runs over
MaxIds == 450

(***************************************************************************)
(* Values.                                                                 *)
(***************************************************************************)
\* absence of a refresh token (data.get("refresh_token") is None, or the
\* cache has no "refresh_token" key)
NoRT == 0

\* minutes in a day: timestamps are counted in minutes
DayMin == 1440

\* Python's None in last_exc
None == [kind |-> "None", attempt |-> 0]

\* the exception raised by the k-th attempt of a call
Err(kind, k) == [kind |-> kind, attempt |-> k]

\* `raise None` raises TypeError (exceptions must derive from BaseException)
TypeErrorRaiseNone == [kind |-> "TypeError", attempt |-> 0]

\* what a failed token request raises (requests.RequestException, KeyError)
AuthFailure == [kind |-> "RequestException", attempt |-> 0]

NoError == [kind |-> "", attempt |-> 0]

\* what `raise e` delivers to the caller
Raise(e) == IF e = None THEN TypeErrorRaiseNone ELSE e

\* str.lower() on the owner addresses of the data sets
Lower(e) ==
    CASE e = "A@x" -> "a@x"
      [] e = "B@x" -> "b@x"
      [] OTHER -> e

Range(s) == {s[i] : i \in 1..Len(s)}

Min(a, b) == IF a < b THEN a ELSE b

RECURSIVE Pow2(_)
Pow2(n) == IF n = 0 THEN 1 ELSE 2 * Pow2(n - 1)


(***************************************************************************)
(* The remote data source.  A data set is what the organisation holds      *)
(* during the run; a query returns the matching rows in source order.      *)
(* Timestamps are [loc, sfx]: the wall-clock part of the string in minutes *)
(* and its suffix ("Z", "+0000" or another "+HHMM").                       *)
(***************************************************************************)
Opp(id, owner) == [Id |-> id, OwnerEmail |-> owner]

Task(id, what, by, loc, sfx) ==
    [Id |-> id, WhatId |-> what, CreatedById |-> by,
     CreatedDate |-> [loc |-> loc, sfx |-> sfx]]

User(id, name, license) == [Id |-> id, Name |-> name, License |-> license]

\* the index of the large data set
BigScn == MaxSmall + 1

Scenarios == 0..BigScn

\* datetime.now(timezone.utc) of the run, in minutes
NowMin == 100 * DayMin

\* the data sets from BigScn on are uniform: data set BigScn has BigN
\* opportunities, data set BigScn + n has n; opportunity i has one task,
\* created by user i
ScnSize(s) == IF s = BigScn THEN BigN ELSE s - BigScn

OppsOf(s) ==
    IF s >= BigScn THEN [i \in 1..ScnSize(s) |-> Opp(i, "a@x")]
    ELSE CASE s = 0 -> << >>
           [] s = 1 -> << Opp(1, "a@x") >>
           [] s = 2 -> << Opp(1, "B@x"), Opp(2, "a@x"), Opp(3, ""), Opp(4, "A@x") >>
           [] OTHER -> [i \in 1..(s - 1) |-> Opp(i, IF i = 1 THEN "a@x" ELSE "b@x")]

TasksOf(s) ==
    IF s >= BigScn THEN [i \in 1..ScnSize(s) |-> Task(i, i, i, 90 * DayMin + i, "Z")]
    ELSE CASE s = 1 -> << Task(1, 1, 1, 90 * DayMin, "Z"),
                          Task(2, 1, 2, 95 * DayMin, "+0000"),
                          Task(3, 1, 1, 92 * DayMin + 5, "+0000") >>
           [] s = 2 -> << Task(1, 1, 1, 70 * DayMin, "+0000"),
                          Task(2, 1, 3, 99 * DayMin, "+0000"),
                          Task(3, 3, 1, 10 * DayMin, "Z"),
                          Task(4, 1, 4, 71 * DayMin, "Z"),
                          Task(5, 4, 1, 20 * DayMin, "Z"),
                          Task(6, 4, 4, 20 * DayMin, "+0000"),
                          Task(7, 4, 4, 15 * DayMin, "Z") >>
           [] OTHER -> << >>

UsersOf(s) ==
    IF s >= BigScn THEN [i \in 1..ScnSize(s) |-> User(i, "Rep", "Salesforce")]
    ELSE CASE s = 1 -> << User(1, "Ann", "Salesforce"),
                          User(2, "Sync", "Salesforce Integration") >>
           [] s = 2 -> << User(1, "Ann", "Salesforce"),
                          User(3, "Automated Process", "Salesforce"),
                          User(4, "Bob", "") >>
           [] OTHER -> << >>

\* OPEN_OPPS_SOQL
QueryOpps(s) == OppsOf(s)

\* TASKS_SOQL_TEMPLATE: WHERE WhatId IN (ids)
QueryTasks(s, ids) ==
    LET S == Range(ids)
    IN  SelectSeq(TasksOf(s), LAMBDA t : t.WhatId \in S)

\* USERS_SOQL_TEMPLATE: WHERE Id IN (ids)
QueryUsers(s, ids) ==
    LET S == Range(ids)
    IN  SelectSeq(UsersOf(s), LAMBDA u : u.Id \in S)

(***************************************************************************)
(* opportunities.py: batching, classification, aggregation, staleness,     *)
(* ordering.                                                               *)
(***************************************************************************)
\* slices that run one element too far: ids[i:i + BATCH_SIZE + 1]
_batch_ids_overlap(ids) ==
    [k \in 1..((Len(ids) + BATCH_SIZE - 1) \div BATCH_SIZE) |->
        SubSeq(ids, (k - 1) * BATCH_SIZE + 1, Min(k * BATCH_SIZE + 1, Len(ids)))]

\* [ids[i:i + BATCH_SIZE] for i in range(0, len(ids), BATCH_SIZE)]
_batch_ids(ids) ==
    [k \in 1..((Len(ids) + BATCH_SIZE - 1) \div BATCH_SIZE) |->
        SubSeq(ids, (k - 1) * BATCH_SIZE + 1, Min(k * BATCH_SIZE, Len(ids)))]

\* a classifier that looks at the license only
IsHumanByLicense(user) ==
    ~(user.License # "" /\ user.License \in NON_HUMAN_LICENSES)

\* the loop of _get_human_user_ids over the fetched profiles; License = ""
\* stands for a profile or license that is missing
IsHuman(user) ==
    /\ user.Name \notin NON_HUMAN_USERNAMES
    /\ ~(user.License # "" /\ user.License \in NON_HUMAN_LICENSES)

HumanIds(users) == {users[i].Id : i \in {j \in 1..Len(users) : IsHuman(users[j])}}

\* {t["CreatedById"] for t in tasks}
AllUserIds(tasks) == {tasks[i].CreatedById : i \in 1..Len(tasks)}

\* the code points of a timestamp suffix
SfxChars(sfx) ==
    CASE sfx = "Z" -> << 90 >>
      [] sfx = "+0000" -> << 43, 48, 48, 48, 48 >>
      [] sfx = "+0530" -> << 43, 48, 53, 51, 48 >>

\* x > y on strings given by their code points
LexGreater(x, y) ==
    \/ \E k \in 1..Min(Len(x), Len(y)) :
          /\ x[k] > y[k]
          /\ \A j \in 1..(k - 1) : x[j] = y[j]
    \/ /\ Len(x) > Len(y)
       /\ \A j \in 1..Len(y) : x[j] = y[j]

\* created > last_touch[opp_id] on the strings: the fixed-width wall-clock
\* part decides, then the suffix
StrGreater(a, b) ==
    \/ a.loc > b.loc
    \/ a.loc = b.loc /\ LexGreater(SfxChars(a.sfx), SfxChars(b.sfx))

\* the suffix of the string _parse_sf_datetime hands to fromisoformat: "Z"
\* and "+0000" become "+00:00", any other suffix stays
IsoSuffix(d) ==
    IF d.sfx = "Z" THEN "+00:00"
    ELSE IF d.sfx = "+0000" THEN "+00:00" ELSE d.sfx

\* the UTC offset, in minutes, that datetime.fromisoformat reads
OffsetMin(iso) ==
    CASE iso = "+00:00" -> 0
      [] iso = "+0530" -> 5 * 60 + 30

\* datetime.fromisoformat before Python 3.11 reads an offset only as
\* "+HH:MM" and raises ValueError on "+HHMM"; from 3.11 on it reads both
FromIsoMayRaise(d) == IsoSuffix(d) # "+00:00"

\* _parse_sf_datetime: the instant in minutes
_parse_sf_datetime(d) == d.loc - OffsetMin(IsoSuffix(d))

\* the value "Never" of _last_touched; a date is its day number
Never == -1

\* last_touch[opp_id][:10]
DateOf(d) == d.loc \div DayMin

\* a loop body that counts the task whoever created it
CountTouchAnyActor(acc, t, human_ids) ==
    LET opp_id == t.WhatId
        created == t.CreatedDate
        old == IF opp_id \in DOMAIN acc.touch_count
               THEN acc.touch_count[opp_id] ELSE 0
    IN  [touch_count |-> (opp_id :> (old + 1)) @@ acc.touch_count,
         last_touch |->
            IF \/ opp_id \notin DOMAIN acc.last_touch
               \/ StrGreater(created, acc.last_touch[opp_id])
            THEN (opp_id :> created) @@ acc.last_touch
            ELSE acc.last_touch]

\* Step 4, the body of `for t in tasks` applied to one task
CountTouch(acc, t, human_ids) ==
    LET opp_id == t.WhatId
        created == t.CreatedDate
        old == IF opp_id \in DOMAIN acc.touch_count
               THEN acc.touch_count[opp_id] ELSE 0
    IN  IF t.CreatedById \in human_ids
        THEN [touch_count |-> (opp_id :> (old + 1)) @@ acc.touch_count,
              last_touch |->
                 IF \/ opp_id \notin DOMAIN acc.last_touch
                    \/ StrGreater(created, acc.last_touch[opp_id])
                 THEN (opp_id :> created) @@ acc.last_touch
                 ELSE acc.last_touch]
        ELSE acc

\* Step 4, the loop over tasks[lo..hi] in order, starting from acc.  The range
\* is halved and the first half is evaluated (left = left) before the second
\* begins, which keeps the evaluation shallow; the order of the tasks is kept.
RECURSIVE CountTouches(_, _, _, _, _)
CountTouches(acc, tasks, human_ids, lo, hi) ==
    IF lo > hi THEN acc
    ELSE IF lo = hi THEN CountTouch(acc, tasks[lo], human_ids)
    ELSE LET mid == (lo + hi) \div 2
             left == CountTouches(acc, tasks, human_ids, lo, mid)
         IN  IF left = left
             THEN CountTouches(left, tasks, human_ids, mid + 1, hi)
             ELSE left

\* a Step 5 that leaves a record without touches unflagged
EnrichOneFresh(opp, agg, stale_cutoff) ==
    LET opp_id == opp.Id
        touched == opp_id \in DOMAIN agg.last_touch
    IN  [Id |-> opp.Id, OwnerEmail |-> opp.OwnerEmail,
         _touch_count |-> IF opp_id \in DOMAIN agg.touch_count
                          THEN agg.touch_count[opp_id] ELSE 0,
         _last_touched |-> IF touched THEN DateOf(agg.last_touch[opp_id])
                           ELSE Never,
         _is_stale |-> IF touched
                       THEN _parse_sf_datetime(agg.last_touch[opp_id]) < stale_cutoff
                       ELSE FALSE]

\* Step 5: one opportunity with its three derived fields
EnrichOne(opp, agg, stale_cutoff) ==
    LET opp_id == opp.Id
        touched == opp_id \in DOMAIN agg.last_touch
    IN  [Id |-> opp.Id, OwnerEmail |-> opp.OwnerEmail,
         _touch_count |-> IF opp_id \in DOMAIN agg.touch_count
                          THEN agg.touch_count[opp_id] ELSE 0,
         _last_touched |-> IF touched THEN DateOf(agg.last_touch[opp_id])
                           ELSE Never,
         _is_stale |-> IF touched
                       THEN _parse_sf_datetime(agg.last_touch[opp_id]) < stale_cutoff
                       ELSE TRUE]

\* the sort key (not o["_is_stale"], -o["_touch_count"]) compared as tuples
KeyLess(a, b) ==
    \/ a._is_stale /\ ~b._is_stale
    \/ a._is_stale = b._is_stale /\ a._touch_count > b._touch_count

\* a sort that puts x before the elements with the same key
SortInsertUnstable(sorted, x) ==
    LET p == Cardinality({i \in 1..Len(sorted) : KeyLess(sorted[i], x)})
    IN  SubSeq(sorted, 1, p) \o << x >> \o SubSeq(sorted, p + 1, Len(sorted))

\* list.sort is stable: x, which followed every element of the sorted prefix,
\* goes after the elements whose key is not greater than its own
SortInsert(sorted, x) ==
    LET p == Cardinality({i \in 1..Len(sorted) : ~KeyLess(x, sorted[i])})
    IN  SubSeq(sorted, 1, p) \o << x >> \o SubSeq(sorted, p + 1, Len(sorted))

\* opps.sort(key=...): the elements opps[lo..hi] join the sorted prefix in
\* order (the range is halved as in CountTouches)
RECURSIVE SortOpps(_, _, _, _)
SortOpps(sorted, opps, lo, hi) ==
    IF lo > hi THEN sorted
    ELSE IF lo = hi THEN SortInsert(sorted, opps[lo])
    ELSE LET mid == (lo + hi) \div 2
             left == SortOpps(sorted, opps, lo, mid)
         IN  IF left = left
             THEN SortOpps(left, opps, mid + 1, hi)
             ELSE left

\* Step 4: touch_count and last_touch after the loop over all tasks
Touches(tasks, human_ids) ==
    CountTouches([touch_count |-> << >>, last_touch |-> << >>],
                 tasks, human_ids, 1, Len(tasks))

\* a Step 5 that keeps only the records that were touched
EnrichedTouchedOnly(opps, tasks, human_ids, now) ==
    LET agg == Touches(tasks, human_ids)
        stale_cutoff == now - STALE_THRESHOLD_DAYS * DayMin
        enriched == [i \in 1..Len(opps) |-> EnrichOne(opps[i], agg, stale_cutoff)]
        kept == SelectSeq(enriched, LAMBDA o : o._touch_count > 0)
    IN  SortOpps(<< >>, kept, 1, Len(kept))

\* Steps 4 and 5 and the sort of get_human_touched_opportunities
Enriched(opps, tasks, human_ids, now) ==
    LET agg == Touches(tasks, human_ids)
        stale_cutoff == now - STALE_THRESHOLD_DAYS * DayMin
        enriched == [i \in 1..Len(opps) |-> EnrichOne(opps[i], agg, stale_cutoff)]
    IN  SortOpps(<< >>, enriched, 1, Len(enriched))

(***************************************************************************)
(* main.py: grouping by owner.                                             *)
(***************************************************************************)
\* the keys of opps_by_owner in insertion order: each lower-cased owner
\* address at the place of its first record
OwnerKeys(opps) ==
    LET key(i) == Lower(opps[i].OwnerEmail)
        first == SelectSeq([i \in 1..Len(opps) |-> i],
                     LAMBDA i : /\ opps[i].OwnerEmail # ""
                                /\ \A j \in 1..(i - 1) :
                                      \/ opps[j].OwnerEmail = ""
                                      \/ key(j) # key(i))
    IN  [n \in 1..Len(first) |-> key(first[n])]

\* opps_by_owner[owner]
OwnerOpps(opps, owner) ==
    SelectSeq(opps, LAMBDA o : o.OwnerEmail # "" /\ Lower(o.OwnerEmail) = owner)

(***************************************************************************)
(* report_template.py and email_sender.py.                                 *)
(***************************************************************************)
\* render_report: the subject carries the count, the body lists the stale
\* rows and then the active rows
render_report(owner_opps) ==
    [count |-> Len(owner_opps),
     rows |-> [i \in 1..Len(SelectSeq(owner_opps, LAMBDA o : o._is_stale)
                          \o SelectSeq(owner_opps, LAMBDA o : ~o._is_stale)) |->
                 (SelectSeq(owner_opps, LAMBDA o : o._is_stale)
                  \o SelectSeq(owner_opps, LAMBDA o : ~o._is_stale))[i].Id]]

\* a send_report that declares cc
SendReportParamsWithCc == {"subject", "html_body", "recipients", "cc"}

\* the parameters of send_report(subject, html_body, recipients)
SendReportParams == {"subject", "html_body", "recipients"}

\* the keyword arguments of main's call send_report(subject, html, [owner], cc=cc)
SendCallKeywords == {"cc"}

\* what a call of send_report can do: a keyword the function does not
\* declare raises TypeError before its body runs; otherwise the Gmail call
\* delivers or raises
SendOutcomes(keywords) ==
    IF keywords \subseteq SendReportParams
    THEN {"sent", "error"}
    ELSE {"TypeError"}

(***************************************************************************)
(* sf_client.py: the token cache.                                          *)
(***************************************************************************)
NoCache == [state |-> "absent", instance_url |-> 0, access_token |-> 0,
            refresh_token |-> NoRT]

CorruptCache == [state |-> "corrupt", instance_url |-> 0, access_token |-> 0,
                 refresh_token |-> NoRT]

\* a _save_token that writes what the response carries and nothing else
_save_token_no_preserve(old, instance_url, access_token, refresh_token) ==
    [state |-> "ok", instance_url |-> instance_url, access_token |-> access_token,
     refresh_token |-> refresh_token]

\* _save_token: the record written to TOKEN_CACHE
_save_token(old, instance_url, access_token, refresh_token) ==
    [state |-> "ok", instance_url |-> instance_url, access_token |-> access_token,
     refresh_token |->
        IF refresh_token # NoRT THEN refresh_token
        ELSE IF old.state = "ok" /\ old.refresh_token # NoRT
             THEN old.refresh_token
             ELSE NoRT]

(***************************************************************************)
(* State of one run of main().                                             *)
(***************************************************************************)
VARIABLES
    scn,          \* the data set the remote source holds
    subscribers,  \* load_subscribers()
    envRT,        \* whether SF_REFRESH_TOKEN is set in the environment
    cache,        \* the contents of TOKEN_CACHE
    issued,       \* number of token responses issued so far
    lastRT,       \* the refresh token issued most recently (NoRT: none yet)
    holder,       \* sf_holder[0], a session named by its access token
    sf,           \* main's local sf, the session connect() returned
    tried,        \* the strategies connect() has entered, in order
    pc,           \* position of the run
    failedIn,     \* where the run failed
    raised,       \* the exception that ended the run
    phase,        \* the query in progress: "opps", "tasks", "users"
    batches,      \* _batch_ids(ids) of the batched query in progress
    bi,           \* index of the batch being queried
    attempt,      \* the loop variable of _with_retry
    last_exc,     \* last_exc of _with_retry
    sleeps,       \* the time.sleep arguments of the call in progress
    hist,         \* outcomes of the attempts of the call in progress
    reauths,      \* re-authentications of the call in progress
    execSess,     \* the session each attempt of the call ran on
    replaced,     \* sessions that were replaced in the holder
    ret,          \* records returned by the call that just ended
    opps,         \* opps of get_human_touched_opportunities / main
    tasks,        \* results of the task query batches so far
    users,        \* results of the user query batches so far
    opp_ids,      \* opp_ids of get_human_touched_opportunities
    ids,          \* the ids argument of the _query_batched in progress
    human_ids,    \* human_ids of Step 3
    touch_count,  \* touch_count of Step 4
    last_touch,   \* last_touch of Step 4
    expiries,     \* number of attempts that met an expired session
    owners,       \* keys of opps_by_owner still to visit, in order
    rendered,     \* number of reports rendered
    sendCalls,    \* number of calls of send_report
    sent,         \* main's counter sent
    delivered     \* the emails the Gmail API accepted, in order

authVars == << cache, issued, lastRT >>

aggVars == << human_ids, touch_count, last_touch >>

cfgVars == << scn, subscribers, envRT >>

callVars == << attempt, last_exc, sleeps, hist, reauths, execSess >>

dataVars == << opps, tasks, users, opp_ids, ids, human_ids, touch_count, last_touch >>

sendVars == << owners, rendered, sendCalls, sent, delivered >>

vars == << scn, subscribers, envRT, cache, issued, lastRT, holder, sf, tried, pc,
           failedIn, raised, phase, batches, bi, attempt, last_exc, sleeps,
           hist, reauths, execSess, replaced, ret, opps, tasks, users, opp_ids,
           ids, human_ids, touch_count, last_touch, expiries,
           owners, rendered, sendCalls, sent, delivered >>

\* the values of SUBSCRIBERS the model runs with (already lower-cased)
SubscriberSets == { {}, {"b@x"}, {"a@x", "b@x"} }

\* what TOKEN_CACHE holds when the run starts: token 1 is the one an earlier
\* run was issued
InitialCaches ==
    { NoCache, CorruptCache,
      [state |-> "ok", instance_url |-> 1, access_token |-> 1, refresh_token |-> NoRT],
      [state |-> "ok", instance_url |-> 1, access_token |-> 1, refresh_token |-> 1] }

Init ==
    /\ scn \in Scenarios
    /\ subscribers \in SubscriberSets
    /\ envRT \in BOOLEAN
    /\ cache \in InitialCaches
    /\ scn = BigScn => subscribers = {"a@x", "b@x"} /\ ~envRT /\ cache.refresh_token # NoRT
    /\ issued = 1
    /\ lastRT = cache.refresh_token
    /\ holder = 0
    /\ sf = 0
    /\ tried = << >>
    /\ pc = "start"
    /\ failedIn = ""
    /\ raised = NoError
    /\ phase = ""
    /\ batches = << >>
    /\ bi = 0
    /\ attempt = 0
    /\ last_exc = None
    /\ sleeps = << >>
    /\ hist = << >>
    /\ reauths = 0
    /\ execSess = << >>
    /\ replaced = {}
    /\ ret = << >>
    /\ opps = << >>
    /\ tasks = << >>
    /\ users = << >>
    /\ opp_ids = << >>
    /\ ids = << >>
    /\ human_ids = {}
    /\ touch_count = << >>
    /\ last_touch = << >>
    /\ expiries = 0
    /\ owners = << >>
    /\ rendered = 0
    /\ sendCalls = 0
    /\ sent = 0
    /\ delivered = << >>

(***************************************************************************)
(* main(): subscribers.                                                    *)
(***************************************************************************)
LoadSubscribers ==
    /\ pc = "start"
    /\ pc' = IF subscribers = {} THEN "exit0" ELSE "connect_cached"
    /\ tried' = IF subscribers = {} THEN tried ELSE << "cached" >>
    /\ UNCHANGED << cfgVars, authVars, holder, sf, failedIn, raised, phase,
                    batches, bi, callVars, replaced, ret, dataVars,
                    expiries, sendVars >>

(***************************************************************************)
(* _with_retry: entering the loop, and what follows a re-authentication.   *)
(***************************************************************************)
\* a query call begins: last_exc = None, attempt = 0
StartCall ==
    /\ attempt' = 0
    /\ last_exc' = None
    /\ sleeps' = << >>
    /\ hist' = << >>
    /\ reauths' = 0
    /\ execSess' = << >>
    /\ pc' = "attempt"

\* the last query call of the run is over: the locals of _with_retry are gone
EndCalls(to) ==
    /\ attempt' = 0
    /\ last_exc' = None
    /\ sleeps' = << >>
    /\ hist' = << >>
    /\ reauths' = 0
    /\ execSess' = << >>
    /\ pc' = to

\* the loop moves to attempt + 1; past the last attempt it ends in
\* `raise last_exc`
NextAttempt(exc) ==
    IF attempt + 1 < MAX_RETRIES
    THEN /\ pc' = "attempt"
         /\ UNCHANGED << failedIn, raised >>
    ELSE /\ pc' = "failed"
         /\ failedIn' = "retry"
         /\ raised' = Raise(exc)

\* connect() returned session h: main stores it and the opportunity query
\* begins
ConnectDone(h) ==
    /\ holder' = h
    /\ sf' = h
    /\ phase' = "opps"
    /\ StartCall
    /\ UNCHANGED << failedIn, raised, replaced >>

\* _reconnect() returned session h inside the handler of an expired
\* session: sf_holder[0] = h; continue
ReconnectDone(h) ==
    /\ holder' = h
    /\ replaced' = replaced \cup {holder}
    /\ reauths' = reauths + 1
    /\ attempt' = attempt + 1
    /\ NextAttempt(last_exc)
    /\ UNCHANGED << sf, phase, last_exc, sleeps, hist, execSess >>

\* an authentication strategy produced session h
Authenticated(h) ==
    IF pc \in {"connect_cached", "connect_refresh", "connect_interactive"}
    THEN ConnectDone(h)
    ELSE ReconnectDone(h)

\* an authentication failure that is swallowed: the loop goes on
AuthSwallowed(where) ==
    /\ pc' = IF where = "connect" THEN "failed" ELSE "attempt"
    /\ failedIn' = IF where = "connect" THEN where ELSE failedIn
    /\ raised' = IF where = "connect" THEN AuthFailure ELSE raised
    /\ UNCHANGED << holder, sf, phase, callVars, replaced >>

\* an authentication failure leaves connect() or _reconnect() as an exception
AuthRaises(where) ==
    /\ pc' = "failed"
    /\ failedIn' = where
    /\ raised' = AuthFailure
    /\ UNCHANGED << holder, sf, phase, callVars, replaced >>

\* what the authentication steps leave alone
authRest == << cfgVars, batches, bi, ret, dataVars, expiries, sendVars >>

Connecting == pc \in {"connect_cached", "connect_refresh", "connect_interactive"}

(***************************************************************************)
(* sf_client.py: the authentication strategies.                            *)
(***************************************************************************)
\* _load_cached_token: the cache parses and describe() succeeds
LoadCachedTokenOk ==
    /\ pc = "connect_cached"
    /\ cache.state = "ok"
    /\ Authenticated(cache.access_token)
    /\ UNCHANGED << authVars, authRest, tried >>

\* _load_cached_token returns None: no cache file, or an exception (a cache
\* that does not parse, a token describe() rejects)
LoadCachedTokenNone ==
    /\ pc = "connect_cached"
    /\ pc' = "connect_refresh"
    /\ tried' = Append(tried, "refresh")
    /\ UNCHANGED << authVars, authRest, holder, sf, failedIn, raised, phase,
                    callVars, replaced >>

\* _refresh_oauth_token finds a refresh token: SF_REFRESH_TOKEN, or the
\* cache's
HasRefreshToken ==
    \/ envRT
    \/ cache.state = "ok" /\ cache.refresh_token # NoRT

\* _refresh_oauth_token returns None: no refresh token, or the token
\* endpoint answers with an error status
RefreshNone ==
    /\ pc \in {"connect_refresh", "reconnect_refresh"}
    /\ pc' = IF Connecting THEN "connect_interactive" ELSE "reconnect_interactive"
    /\ tried' = IF Connecting THEN Append(tried, "interactive") ELSE tried
    /\ UNCHANGED << authVars, authRest, holder, sf, failedIn, raised, phase,
                    callVars, replaced >>

\* _refresh_oauth_token raises: requests.post fails (no network), or the
\* answer lacks a field
RefreshRaise ==
    /\ pc \in {"connect_refresh", "reconnect_refresh"}
    /\ HasRefreshToken
    /\ AuthRaises(IF Connecting THEN "connect" ELSE "reconnect")
    /\ UNCHANGED << authVars, authRest, tried >>

\* a token response is saved: its access token and instance URL, and its
\* refresh token rt (NoRT when the response carries none)
TokenIssued(rt) ==
    /\ cache' = _save_token(cache, issued + 1, issued + 1, rt)
    /\ issued' = issued + 1
    /\ lastRT' = IF rt # NoRT THEN rt ELSE lastRT

\* _refresh_oauth_token succeeds
RefreshOk ==
    /\ pc \in {"connect_refresh", "reconnect_refresh"}
    /\ HasRefreshToken
    /\ \E rt \in {NoRT, issued + 1} : TokenIssued(rt)
    /\ Authenticated(issued + 1)
    /\ UNCHANGED << authRest, tried >>

\* _auth_oauth succeeds
AuthOauthOk ==
    /\ pc \in {"connect_interactive", "reconnect_interactive"}
    /\ \E rt \in {NoRT, issued + 1} : TokenIssued(rt)
    /\ Authenticated(issued + 1)
    /\ UNCHANGED << authRest, tried >>

\* _auth_oauth raises: the code exchange fails
AuthOauthFail ==
    /\ pc \in {"connect_interactive", "reconnect_interactive"}
    /\ AuthRaises(IF Connecting THEN "connect" ELSE "reconnect")
    /\ UNCHANGED << authVars, authRest, tried >>

(***************************************************************************)
(* sf_client.py: one attempt of _with_retry.                               *)
(***************************************************************************)
\* the session main() was given by connect(), not the holder's
ExecSessionOfMain == sf

\* func(sf_holder[0]): the session the attempt runs on
ExecSession == holder

\* the record of one execution: the session used, the holder's session at
\* that moment, and whether the session used had been replaced before
Execution ==
    [used |-> ExecSession, current |-> holder, stale |-> ExecSession \in replaced]

\* what the query in progress returns
QueryResult ==
    CASE phase = "opps" -> QueryOpps(scn)
      [] phase = "tasks" -> QueryTasks(scn, batches[bi])
      [] phase = "users" -> QueryUsers(scn, batches[bi])

attemptRest == << cfgVars, authVars, holder, sf, tried, phase, batches, bi, replaced,
                  dataVars, sendVars >>

\* the attempt succeeds: return func(sf_holder[0])
AttemptOk ==
    /\ pc = "attempt"
    /\ execSess' = Append(execSess, Execution)
    /\ hist' = Append(hist, "ok")
    /\ ret' = QueryResult
    /\ pc' = "returned"
    /\ UNCHANGED << attemptRest, failedIn, raised, attempt, last_exc, sleeps,
                    reauths, expiries >>

\* a backoff that does not double
BackoffConstant(k) == RETRY_BACKOFF

\* the sleep of the handler of a transient failure
Backoff(k) == RETRY_BACKOFF * Pow2(k)

\* except Exception as e
AttemptTransient ==
    /\ pc = "attempt"
    /\ execSess' = Append(execSess, Execution)
    /\ hist' = Append(hist, "transient")
    /\ last_exc' = Err("transient", attempt + 1)
    /\ sleeps' = IF attempt < MAX_RETRIES - 1
                 THEN Append(sleeps, Backoff(attempt))
                 ELSE sleeps
    /\ attempt' = attempt + 1
    /\ NextAttempt(last_exc')
    /\ UNCHANGED << attemptRest, reauths, ret, expiries >>

\* except SalesforceExpiredSession: _reconnect() is entered
AttemptExpired ==
    /\ pc = "attempt"
    /\ expiries < MaxExpiries
    /\ expiries' = expiries + 1
    /\ execSess' = Append(execSess, Execution)
    /\ hist' = Append(hist, "expired")
    /\ pc' = "reconnect_refresh"
    /\ UNCHANGED << attemptRest, failedIn, raised, attempt, last_exc, sleeps,
                    reauths, ret >>

(***************************************************************************)
(* opportunities.py: get_human_touched_opportunities and _query_batched.   *)
(***************************************************************************)
\* identifiers the data sets use for actors
UserIdSpace == [i \in 1..(BigN + MaxSmall + MaxIds) |-> i]

Reverse(s) == [i \in 1..Len(s) |-> s[Len(s) + 1 - i]]

\* list(all_user_ids): the iteration order of a set is not fixed; every order
\* of a set of at most three, the ascending and the descending order of a
\* larger one
ListOrders(S) ==
    IF Cardinality(S) <= 3
    THEN {f \in [1..Cardinality(S) -> S] : \A x \in S : \E i \in DOMAIN f : f[i] = x}
    ELSE LET asc == SelectSeq(UserIdSpace, LAMBDA i : i \in S)
         IN  {asc, Reverse(asc)}

callerRest == << cfgVars, authVars, holder, sf, tried, failedIn, raised, replaced,
                 expiries, sendVars >>

\* Step 1 returned: opps; `if not opps: return []` and main exits with
\* status 0, otherwise Step 2 begins with the first batch of opp_ids
OppsReturned ==
    /\ pc = "returned"
    /\ phase = "opps"
    /\ opps' = ret
    /\ ret' = << >>
    /\ IF ret = << >>
       THEN /\ EndCalls("exit0")
            /\ UNCHANGED << phase, batches, bi, opp_ids, ids >>
       ELSE /\ opp_ids' = [i \in 1..Len(ret) |-> ret[i].Id]
            /\ ids' = opp_ids'
            /\ batches' = _batch_ids(ids')
            /\ bi' = 1
            /\ phase' = "tasks"
            /\ StartCall
    /\ UNCHANGED << callerRest, tasks, users, aggVars >>

\* a Step 3 without `if all_user_ids`, over a _query_batched that queries
\* once even for no identifier
TasksReturnedUnguarded ==
    /\ pc = "returned"
    /\ phase = "tasks"
    /\ tasks' = tasks \o ret
    /\ ret' = << >>
    /\ IF bi < Len(batches)
       THEN /\ bi' = bi + 1
            /\ StartCall
            /\ UNCHANGED << phase, batches, ids >>
       ELSE /\ ids' \in ListOrders(AllUserIds(tasks'))
            /\ batches' = IF ids' = << >> THEN << << >> >> ELSE _batch_ids(ids')
            /\ bi' = 1
            /\ phase' = "users"
            /\ StartCall
    /\ UNCHANGED << callerRest, opps, users, opp_ids, aggVars >>

\* a task batch returned: results.extend(...); after the last batch Step 3
\* collects the creators and, unless there is none, queries their profiles
TasksReturned ==
    /\ pc = "returned"
    /\ phase = "tasks"
    /\ tasks' = tasks \o ret
    /\ ret' = << >>
    /\ IF bi < Len(batches)
       THEN /\ bi' = bi + 1
            /\ StartCall
            /\ UNCHANGED << phase, batches, ids >>
       ELSE IF AllUserIds(tasks') = {}
            THEN /\ EndCalls("enrich")
                 /\ UNCHANGED << phase, batches, bi, ids >>
            ELSE /\ ids' \in ListOrders(AllUserIds(tasks'))
                 /\ batches' = _batch_ids(ids')
                 /\ bi' = 1
                 /\ phase' = "users"
                 /\ StartCall
    /\ UNCHANGED << callerRest, opps, users, opp_ids, aggVars >>

\* a _query_batched that returns inside its loop, after the first batch
UsersReturnedEarly ==
    /\ pc = "returned"
    /\ phase = "users"
    /\ users' = users \o ret
    /\ ret' = << >>
    /\ EndCalls("enrich")
    /\ UNCHANGED << callerRest, phase, batches, bi, opps, tasks, opp_ids, ids,
                    aggVars >>

\* a user batch returned: results.extend(...)
UsersReturned ==
    /\ pc = "returned"
    /\ phase = "users"
    /\ users' = users \o ret
    /\ ret' = << >>
    /\ IF bi < Len(batches)
       THEN /\ bi' = bi + 1
            /\ StartCall
       ELSE /\ EndCalls("enrich")
            /\ UNCHANGED bi
    /\ UNCHANGED << callerRest, phase, batches, opps, tasks, opp_ids, ids,
                    aggVars >>

\* human_ids of Step 3
HumanSet(tasks_, users_) ==
    IF AllUserIds(tasks_) = {} THEN {} ELSE HumanIds(users_)

\* Steps 3 and 4: human_ids, touch_count, last_touch
Aggregate ==
    /\ human_ids' = HumanSet(tasks, users)
    /\ touch_count' = Touches(tasks, human_ids').touch_count
    /\ last_touch' = Touches(tasks, human_ids').last_touch

\* Steps 3 to 5 and the sort; back in main the records are grouped by owner
Enrich ==
    /\ pc = "enrich"
    /\ Aggregate
    /\ opps' = Enriched(opps, tasks, human_ids', NowMin)
    /\ owners' = OwnerKeys(opps')
    /\ pc' = "send"
    /\ UNCHANGED << cfgVars, authVars, holder, sf, tried, failedIn, raised,
                    phase, batches, bi, callVars, replaced, ret, tasks, users,
                    opp_ids, ids, expiries, rendered, sendCalls, sent, delivered >>

\* Step 5 raises: _parse_sf_datetime meets a last-touch string whose offset
\* fromisoformat does not read (Python 3.10); the exception leaves
\* get_human_touched_opportunities and main
EnrichRaises ==
    /\ pc = "enrich"
    /\ Aggregate
    /\ \E i \in 1..Len(opps) :
          /\ opps[i].Id \in DOMAIN last_touch'
          /\ FromIsoMayRaise(last_touch'[opps[i].Id])
    /\ pc' = "failed"
    /\ failedIn' = "enrich"
    /\ raised' = [kind |-> "ValueError", attempt |-> 0]
    /\ UNCHANGED << cfgVars, authVars, holder, sf, tried, phase, batches, bi,
                    callVars, replaced, ret, opps, tasks, users, opp_ids, ids,
                    expiries, sendVars >>

(***************************************************************************)
(* main(): the loop over the owners.                                       *)
(***************************************************************************)
sendRest == << cfgVars, authVars, holder, sf, tried, phase, batches, bi, callVars,
               replaced, ret, dataVars, expiries >>

\* if owner_email not in subscribers: continue
SkipOwner ==
    /\ pc = "send"
    /\ owners # << >>
    /\ Head(owners) \notin subscribers
    /\ owners' = Tail(owners)
    /\ UNCHANGED << sendRest, pc, failedIn, raised, rendered, sendCalls, sent,
                    delivered >>

\* render_report, then send_report(subject, html, [owner_email], cc=cc)
SendReport ==
    /\ pc = "send"
    /\ owners # << >>
    /\ Head(owners) \in subscribers
    /\ rendered' = rendered + 1
    /\ sendCalls' = sendCalls + 1
    /\ \E outcome \in SendOutcomes(SendCallKeywords) :
          IF outcome = "sent"
          THEN /\ delivered' = Append(delivered,
                      [to |-> Head(owners),
                       report |-> render_report(OwnerOpps(opps, Head(owners)))])
               /\ sent' = sent + 1
               /\ owners' = Tail(owners)
               /\ UNCHANGED << pc, failedIn, raised >>
          ELSE /\ pc' = "failed"
               /\ failedIn' = "send"
               /\ raised' = [kind |-> outcome, attempt |-> 0]
               /\ UNCHANGED << delivered, sent, owners >>
    /\ UNCHANGED sendRest

\* the loop ends: print("Done. ...")
LoopDone ==
    /\ pc = "send"
    /\ owners = << >>
    /\ pc' = "done"
    /\ UNCHANGED << sendRest, failedIn, raised, sendVars >>

Next ==
    \/ LoadSubscribers
    \/ LoadCachedTokenOk
    \/ LoadCachedTokenNone
    \/ RefreshNone
    \/ RefreshRaise
    \/ RefreshOk
    \/ AuthOauthOk
    \/ AuthOauthFail
    \/ AttemptOk
    \/ AttemptTransient
    \/ AttemptExpired
    \/ OppsReturned
    \/ TasksReturned
    \/ UsersReturned
    \/ Enrich
    \/ SkipOwner
    \/ SendReport
    \/ LoopDone

Spec == Init /\ [][Next]_vars

(***************************************************************************)
(* The batched queries of get_human_touched_opportunities, from the moment *)
(* the opportunity query returned, over organisations of chosen sizes and  *)
(* with every query attempt succeeding.                                    *)
(***************************************************************************)
\* the sizes: around the multiples of BATCH_SIZE, every fiftieth, the largest
BatchSizes ==
    {n \in 1..MaxIds : \/ n % 50 = 0
                       \/ n % BATCH_SIZE \in {1, BATCH_SIZE - 1}
                       \/ n = MaxIds}

BatchInit ==
    /\ scn \in {BigScn + n : n \in BatchSizes}
    /\ subscribers = {"a@x", "b@x"}
    /\ envRT = FALSE
    /\ cache = [state |-> "ok", instance_url |-> 1, access_token |-> 1,
                refresh_token |-> 1]
    /\ issued = 1
    /\ lastRT = 1
    /\ holder = 1
    /\ sf = 1
    /\ tried = << "cached" >>
    /\ pc = "returned"
    /\ failedIn = ""
    /\ raised = NoError
    /\ phase = "opps"
    /\ batches = << >>
    /\ bi = 0
    /\ attempt = 0
    /\ last_exc = None
    /\ sleeps = << >>
    /\ hist = << "ok" >>
    /\ reauths = 0
    /\ execSess = << [used |-> 1, current |-> 1, stale |-> FALSE] >>
    /\ replaced = {}
    /\ ret = QueryOpps(scn)
    /\ opps = << >>
    /\ tasks = << >>
    /\ users = << >>
    /\ opp_ids = << >>
    /\ ids = << >>
    /\ human_ids = {}
    /\ touch_count = << >>
    /\ last_touch = << >>
    /\ expiries = 0
    /\ owners = << >>
    /\ rendered = 0
    /\ sendCalls = 0
    /\ sent = 0
    /\ delivered = << >>

BatchNext ==
    \/ OppsReturned
    \/ AttemptOk
    \/ TasksReturned
    \/ UsersReturned

BatchSpec == BatchInit /\ [][BatchNext]_vars

(***************************************************************************)
(* get_human_touched_opportunities from Step 3 on, applied to drawn query  *)
(* results: the opportunities of Step 1, every sequence of at most         *)
(* MaxTasks activity records over them, and the profiles of the creators   *)
(* in every order the user query may return them.                          *)
(***************************************************************************)
\* the result of Step 1: three opportunities, not in the order of their ids
TouchOpps == << Opp(2, "a@x"), Opp(1, "b@x"), Opp(3, "A@x") >>

\* the actors that create activities: a person, an integration license, the
\* automated user name with a person's license
TouchActors ==
    << User(1, "Ann", "Salesforce"),
       User(2, "Sync", "Salesforce Integration"),
       User(3, "Automated Process", "Salesforce") >>

\* stale_cutoff of a run at NowMin
StaleCutoff == NowMin - STALE_THRESHOLD_DAYS * DayMin

\* creation timestamps in the three forms: an hour after the cutoff with
\* "+0000"; a later wall-clock time with "+0530", an instant before the
\* cutoff; a day before the cutoff with "Z"
Stamps ==
    { [loc |-> StaleCutoff + 60, sfx |-> "+0000"],
      [loc |-> StaleCutoff + 120, sfx |-> "+0530"],
      [loc |-> StaleCutoff - DayMin, sfx |-> "Z"] }

\* the activity records the task query can return for TouchOpps: the parent
\* is one of the first two opportunities
TaskSpace ==
    { [Id |-> 0, WhatId |-> w, CreatedById |-> TouchActors[a].Id, CreatedDate |-> d] :
        w \in {TouchOpps[1].Id, TouchOpps[2].Id}, a \in DOMAIN TouchActors, d \in Stamps }

\* a result of the task query: the records f with their Ids, the n-th
\* record has Id n
TaskSeq(f) == [i \in DOMAIN f |-> [f[i] EXCEPT !.Id = i]]

\* the results of the user query for the creators of tasks_: one profile
\* for each, in any order
UserSeqs(tasks_) ==
    { [i \in 1..Len(o) |-> TouchActors[o[i]]] : o \in ListOrders(AllUserIds(tasks_)) }

TouchInit ==
    /\ scn = 0
    /\ subscribers = {"a@x", "b@x"}
    /\ envRT = FALSE
    /\ cache = [state |-> "ok", instance_url |-> 1, access_token |-> 1,
                refresh_token |-> 1]
    /\ issued = 1
    /\ lastRT = 1
    /\ holder = 1
    /\ sf = 1
    /\ tried = << "cached" >>
    /\ pc = "enrich"
    /\ failedIn = ""
    /\ raised = NoError
    /\ opps = TouchOpps
    /\ opp_ids = [i \in 1..Len(opps) |-> opps[i].Id]
    /\ \E n \in 0..MaxTasks :
          \E f \in [1..n -> TaskSpace] : tasks = TaskSeq(f)
    /\ users \in UserSeqs(tasks)
    /\ ids = IF users = << >> THEN opp_ids ELSE [i \in 1..Len(users) |-> users[i].Id]
    /\ phase = IF users = << >> THEN "tasks" ELSE "users"
    /\ batches = _batch_ids(ids)
    /\ bi = Len(batches)
    /\ attempt = 0
    /\ last_exc = None
    /\ sleeps = << >>
    /\ hist = << >>
    /\ reauths = 0
    /\ execSess = << >>
    /\ replaced = {}
    /\ ret = << >>
    /\ human_ids = {}
    /\ touch_count = << >>
    /\ last_touch = << >>
    /\ expiries = 0
    /\ owners = << >>
    /\ rendered = 0
    /\ sendCalls = 0
    /\ sent = 0
    /\ delivered = << >>

TouchNext ==
    \/ Enrich
    \/ EnrichRaises

TouchSpec == TouchInit /\ [][TouchNext]_vars

(***************************************************************************)
(* Properties of the retrying query call.                                  *)
(***************************************************************************)
\* number of attempts of the call in progress that ended as kind
NumOf(kind) == Cardinality({i \in DOMAIN hist : hist[i] = kind})

LastOutcome == IF hist = << >> THEN "" ELSE hist[Len(hist)]

\* C1: a call whose first two attempts fail transiently and whose third
\* succeeds returns that result after exactly the sleeps 2, 4; a call whose
\* three attempts fail transiently raises the third error, after the sleeps
\* 2, 4 only, and makes no fourth attempt.
C1_RetryBackoff ==
    /\ Len(hist) <= MAX_RETRIES
    /\ hist = << "transient", "transient", "ok" >> =>
          /\ pc = "returned"
          /\ ret = QueryResult
          /\ sleeps = << 2, 4 >>
          /\ raised = NoError
    /\ hist = << "transient", "transient", "transient" >> =>
          /\ pc = "failed"
          /\ raised = Err("transient", 3)
          /\ sleeps = << 2, 4 >>
          /\ Len(execSess) = 3

C1_Witness ==
    /\ hist = << "transient", "transient", "ok" >>
    /\ phase = "tasks"
    /\ Len(ret) > 0

\* the call in progress gave up: the loop of _with_retry ran out
GaveUp == pc = "failed" /\ failedIn = "retry"

\* C2: a recovered session expiry uses up none of the three attempts allowed
\* for transient failures: the call gives up only after three transient
\* failures, and its i-th backoff sleep lasts RETRY_BACKOFF * 2^(i-1) seconds.
C2_ExpiryIndependentOfRetry ==
    /\ GaveUp => NumOf("transient") = MAX_RETRIES
    /\ \A i \in DOMAIN sleeps : sleeps[i] = RETRY_BACKOFF * Pow2(i - 1)

\* C3: after an expired attempt and a successful re-authentication the
\* operation runs again on the new session, whichever attempt expired, with
\* one re-authentication per expiry; a successful execution returns the
\* records and raises nothing.
C3_ExpiryRecovered ==
    /\ reauths <= NumOf("expired")
    /\ (LastOutcome = "expired" /\ reauths = NumOf("expired")) =>
          pc = "attempt" /\ holder = issued
    /\ LastOutcome = "ok" => pc = "returned" /\ raised = NoError

\* C4: a call that gives up raises the error of its last failed attempt,
\* never a value no attempt produced and never an earlier attempt's error.
C4_RaisesLastError ==
    GaveUp => raised = Err(LastOutcome, Len(hist))

(***************************************************************************)
(* Properties of authentication.                                           *)
(***************************************************************************)
IsPrefix(s, t) == Len(s) <= Len(t) /\ \A i \in DOMAIN s : s[i] = t[i]

Strategies == << "cached", "refresh", "interactive" >>

\* C5: connect() enters the strategies in the order cached, refresh,
\* interactive, stops at the first that succeeds, and fails only when all
\* three were entered.
C5_ConnectFallsThrough ==
    /\ IsPrefix(tried, Strategies)
    /\ failedIn = "connect" => tried = Strategies
    /\ (holder # 0 /\ tried = << "cached" >>) => sf = 1

\* the run is past connect() and has not ended
Running == pc \in {"attempt", "returned", "reconnect_refresh",
                   "reconnect_interactive", "enrich", "send"}

\* C6: after a re-authentication the holder has the new session, and every
\* execution of an operation, in this call and in every later one, runs on
\* the holder's current session, never on one that was replaced.
C6_HolderIsCurrent ==
    /\ \A i \in DOMAIN execSess :
          execSess[i].used = execSess[i].current /\ ~execSess[i].stale
    /\ Running => holder \notin replaced
    /\ (Running /\ replaced # {}) => holder = issued /\ cache.access_token = holder

C6_Witness ==
    /\ phase = "tasks"
    /\ bi = 2
    /\ pc = "returned"
    /\ reauths = 0
    /\ replaced # {}
    /\ execSess[1].used = issued

\* C7: every successful refresh or interactive authentication overwrites the
\* cache with the new access token and instance URL; a response without a
\* refresh token leaves the cache's refresh token in place; so a cache that
\* holds a refresh token keeps holding one, the most recently issued.
C7_CachePreservesRefreshToken ==
    /\ [](issued > 1 => /\ cache.state = "ok"
                        /\ cache.access_token = issued
                        /\ cache.instance_url = issued)
    /\ [](cache.refresh_token # NoRT => cache.refresh_token = lastRT)
    /\ [][cache.refresh_token # NoRT =>
             /\ cache'.refresh_token # NoRT
             /\ lastRT' = lastRT => cache'.refresh_token = cache.refresh_token]_vars

C7_Witness ==
    /\ issued > 2
    /\ cache.access_token = issued
    /\ cache.refresh_token # NoRT
    /\ cache.refresh_token < issued - 1

\* C8: when the re-authentication after an expired session fails, the failure
\* leaves the query call at once: no further attempt, no backoff sleep, and
\* the run ends with no email sent; an attempt follows an expiry only after a
\* successful re-authentication.
C8_ReauthFailureIsFatal ==
    /\ pc \in {"attempt", "returned"} => reauths = NumOf("expired")
    /\ failedIn = "reconnect" =>
          /\ pc = "failed"
          /\ raised = AuthFailure
          /\ LastOutcome = "expired"
          /\ Len(execSess) = Len(hist)
          /\ attempt = Len(hist) - 1
          /\ Len(sleeps) = NumOf("transient")
          /\ rendered = 0 /\ sendCalls = 0 /\ delivered = << >>

C8_Witness ==
    /\ failedIn = "reconnect"
    /\ hist = << "transient", "expired" >>
    /\ phase = "users"

(***************************************************************************)
(* Properties of the run.                                                  *)
(***************************************************************************)
AllIds(recs) == [i \in 1..Len(recs) |-> recs[i].Id]

\* every query of the run has completed: the opportunities, every task batch
\* and every user batch
AllQueriesDone ==
    /\ Len(opps) = Len(OppsOf(scn))
    /\ Range(AllIds(opps)) = Range(AllIds(OppsOf(scn)))
    /\ tasks = QueryTasks(scn, AllIds(OppsOf(scn)))
    /\ Range(users) = {u \in Range(UsersOf(scn)) : u.Id \in AllUserIds(tasks)}
    /\ Len(users) = Cardinality(Range(users))

\* C9: no email is sent without subscribers, with an empty record set, or
\* after an authentication or query failure; and nothing is rendered or sent
\* before all queries have completed and the enriched, sorted record set is
\* there.
C9_SendAfterAllQueries ==
    /\ subscribers = {} => rendered = 0 /\ sendCalls = 0
    /\ pc = "exit0" => rendered = 0 /\ sendCalls = 0 /\ delivered = << >>
    /\ (pc = "failed" /\ failedIn \in {"connect", "reconnect", "retry"}) =>
          rendered = 0 /\ sendCalls = 0 /\ delivered = << >>
    /\ (rendered > 0 \/ sendCalls > 0) =>
          /\ AllQueriesDone
          /\ opps = Enriched(OppsOf(scn), tasks, HumanSet(tasks, users), NowMin)
          /\ Len(opps) > 0

C9_Witness ==
    /\ sendCalls > 0
    /\ scn = BigScn
    /\ Len(users) = BigN

TasksOn(id, S) ==
    {k \in 1..Len(tasks) : tasks[k].WhatId = id /\ tasks[k].CreatedById \in S}

\* the instant a creation timestamp denotes, in minutes
Instant(d) == d.loc - OffsetMin(IsoSuffix(d))

\* C11: the touch count of every returned record is the number of fetched
\* activity records whose WhatId is the record and whose creator is in the
\* human set; the other activity records add nothing.
C11_TouchCount ==
    pc = "send" =>
       \A i \in 1..Len(opps) :
          opps[i]._touch_count = Cardinality(TasksOn(opps[i].Id, human_ids))

C11_Witness ==
    /\ pc = "send"
    /\ \E i \in 1..Len(opps) :
          /\ opps[i]._touch_count = 2
          /\ Cardinality(TasksOn(opps[i].Id, AllUserIds(tasks))) = 3

\* C12: the last touch chosen for a record is the chronologically latest
\* creation timestamp among its human-originated activities, whatever forms
\* the timestamps carry.
C12_LastTouchIsLatest ==
    \A id \in DOMAIN last_touch :
       \A k \in TasksOn(id, human_ids) :
          Instant(tasks[k].CreatedDate) <= Instant(last_touch[id])

\* C13: a record without human touches is stale, and a record with a
\* human-originated activity created after the cutoff is not stale.
C13_Staleness ==
    pc = "send" =>
       \A i \in 1..Len(opps) :
          /\ TasksOn(opps[i].Id, human_ids) = {} => opps[i]._is_stale
          /\ (\E k \in TasksOn(opps[i].Id, human_ids) :
                 Instant(tasks[k].CreatedDate) > StaleCutoff) => ~opps[i]._is_stale

\* C14: every record get_human_touched_opportunities returns to main has at
\* least MIN_TOUCHES human touches.
C14_MinTouches ==
    pc \in {"send", "done"} =>
       \A i \in 1..Len(opps) : opps[i]._touch_count >= MIN_TOUCHES

\* the position of opportunity id in the result of the opportunity query
QueryPos(id) == CHOOSE n \in 1..Len(opp_ids) : opp_ids[n] = id

\* C15: the returned sequence is a permutation of the queried records, stale
\* records first, touch counts non-increasing inside each staleness group,
\* and records with equal staleness and count in their query order.
C15_SortOrder ==
    pc = "send" =>
       /\ Len(opps) = Len(opp_ids)
       /\ \A n \in 1..Len(opp_ids) : \E i \in 1..Len(opps) : opps[i].Id = opp_ids[n]
       /\ \A i, j \in 1..Len(opps) :
             i < j =>
                /\ opps[j]._is_stale => opps[i]._is_stale
                /\ opps[i]._is_stale = opps[j]._is_stale =>
                      opps[i]._touch_count >= opps[j]._touch_count
                /\ (/\ opps[i]._is_stale = opps[j]._is_stale
                    /\ opps[i]._touch_count = opps[j]._touch_count) =>
                      QueryPos(opps[i].Id) < QueryPos(opps[j].Id)

C15_Witness ==
    /\ pc = "send"
    /\ [i \in 1..Len(opps) |-> opps[i].Id] = << 3, 2, 1 >>
    /\ ~opps[2]._is_stale
    /\ opps[2]._touch_count = opps[3]._touch_count

\* the profile of actor a, whatever the order of the fetched profiles
ProfileOf(a) == CHOOSE u \in Range(TouchActors) : u.Id = a

\* C17: a requested actor is left out of the human set exactly when its name
\* is in the automated-username list or its license is in the
\* automated-license list; every other requested actor is in the set; the
\* set does not depend on the order of the identifiers or of the profiles.
C17_Classifier ==
    pc \in {"send", "failed"} =>
       /\ human_ids \subseteq AllUserIds(tasks)
       /\ \A a \in AllUserIds(tasks) :
             a \notin human_ids <=>
                \/ ProfileOf(a).Name \in NON_HUMAN_USERNAMES
                \/ ProfileOf(a).License \in NON_HUMAN_LICENSES

C17_Witness ==
    /\ pc = "send"
    /\ AllUserIds(tasks) = {1, 2, 3}
    /\ human_ids = {1}
    /\ users[1].Id = 3
    /\ users[3].Id = 1

\* C18: every record of the opportunity query is in the result, and carries
\* a touch count, a last touch and a staleness flag, also when it has no
\* human activity.
C18_AllRecordsEnriched ==
    pc = "send" =>
       /\ Len(opps) = Len(opp_ids)
       /\ \A n \in 1..Len(opp_ids) : \E i \in 1..Len(opps) : opps[i].Id = opp_ids[n]
       /\ \A i \in 1..Len(opps) :
             /\ {"_touch_count", "_last_touched", "_is_stale"} \subseteq DOMAIN opps[i]
             /\ opps[i]._touch_count \in Nat
             /\ opps[i]._is_stale \in BOOLEAN

C18_Witness ==
    /\ pc = "send"
    /\ Len(opps) = Len(TouchOpps)
    /\ \E i, j \in 1..Len(opps) :
          /\ TasksOn(opps[i].Id, AllUserIds(tasks)) = {}
          /\ opps[i]._last_touched = Never
          /\ opps[j]._touch_count > 0

\* C19: in the output a touch count is never negative, a count of 0 comes
\* with the last touch "Never" and the stale flag, and a last touch other
\* than "Never" comes with a count of at least 1.
C19_StatsInvariant ==
    pc = "send" =>
       \A i \in 1..Len(opps) :
          /\ opps[i]._touch_count >= 0
          /\ opps[i]._touch_count = 0 =>
                opps[i]._last_touched = Never /\ opps[i]._is_stale
          /\ opps[i]._last_touched # Never => opps[i]._touch_count >= 1

C19_Witness ==
    /\ pc = "send"
    /\ \E i \in 1..Len(opps) :
          /\ opps[i]._touch_count = 0
          /\ TasksOn(opps[i].Id, AllUserIds(tasks)) # {}
    /\ \E j \in 1..Len(opps) : opps[j]._last_touched # Never

(***************************************************************************)
(* Properties of the run of main() (Spec), continued.                      *)
(***************************************************************************)
\* C20: when no activity record was fetched, so that there is no actor to
\* classify, no attempt of a user-profile query is made and the human set is
\* empty.
C20_NoActorsNoUserQuery ==
    /\ (phase = "users" /\ hist # << >>) => AllUserIds(tasks) # {}
    /\ (pc \in {"send", "done"} /\ AllUserIds(tasks) = {}) =>
          /\ human_ids = {}
          /\ users = << >>
          /\ phase = "tasks"

C20_Witness ==
    /\ pc = "send"
    /\ Len(opps) > 0
    /\ tasks = << >>
    /\ human_ids = {}
    /\ phase = "tasks"

(***************************************************************************)
(* Properties of the batched query (BatchSpec).                            *)
(***************************************************************************)
\* the batched query over the opportunity ids has ended
TasksFetched == phase = "users" \/ (phase = "tasks" /\ pc = "enrich")

\* the batched query over the user ids has ended
UsersFetched == phase = "users" /\ pc = "enrich"

\* rows holds the rows of all, each once
SameRows(rows, all) ==
    /\ Len(rows) = Len(all)
    /\ Range(rows) = Range(all)

\* C16: a batched query over n identifiers makes ceil(n / 200) underlying
\* queries, over consecutive slices of the input of 200 identifiers (the
\* last one of the remainder), and its concatenated result holds the rows of
\* one query over all identifiers, none twice and none missing.
C16_Batching ==
    /\ phase \in {"tasks", "users"} =>
          /\ (Len(batches) - 1) * 200 < Len(ids)
          /\ Len(ids) <= Len(batches) * 200
          /\ \A k \in 1..Len(batches) :
                /\ Len(batches[k]) =
                      IF k < Len(batches) THEN 200 ELSE Len(ids) - (k - 1) * 200
                /\ \A j \in 1..Len(batches[k]) :
                      batches[k][j] = ids[(k - 1) * 200 + j]
          /\ bi \in 1..Len(batches)
    /\ TasksFetched => SameRows(tasks, QueryTasks(scn, opp_ids))
    /\ UsersFetched => bi = Len(batches) /\ SameRows(users, QueryUsers(scn, ids))

C16_Witness ==
    /\ UsersFetched
    /\ Len(ids) = 450
    /\ ids[1] = 450
    /\ [k \in 1..Len(batches) |-> Len(batches[k])] = << 200, 200, 50 >>
    /\ Len(users) = 450

\* the run came to the end of its send loop with nothing outside the program
\* failing: the loop finished, or send_report rejected the call itself
SendLoopOver ==
    \/ pc = "done"
    \/ pc = "failed" /\ failedIn = "send" /\ raised.kind = "TypeError"

\* the emails delivered to address o
EmailsTo(o) == {n \in DOMAIN delivered : delivered[n].to = o}

\* C21: in a run that completes, every subscribed owner of a returned record
\* receives exactly one email, holding exactly the owner's records in the
\* order of the sorted record set; no email goes to an address outside the
\* subscribers and no record without an owner address is in any email.
C21_OwnersReceiveTheirRecords ==
    SendLoopOver =>
       /\ \A o \in Range(OwnerKeys(opps)) :
             o \in subscribers =>
                /\ Cardinality(EmailsTo(o)) = 1
                /\ \A n \in EmailsTo(o) :
                      delivered[n].report.rows =
                         [i \in 1..Len(OwnerOpps(opps, o)) |-> OwnerOpps(opps, o)[i].Id]
       /\ \A n \in DOMAIN delivered :
             /\ delivered[n].to \in subscribers
             /\ \A i \in 1..Len(opps) :
                   opps[i].OwnerEmail = "" =>
                      opps[i].Id \notin Range(delivered[n].report.rows)

\* C22: a query call executes its operation at most 3 times, sleeps at most
\* twice and re-authenticates at most 3 times, and every re-authentication
\* is followed by another attempt of the call on the new session.
C22_BoundedCall ==
    /\ Len(execSess) <= 3
    /\ Len(sleeps) <= 2
    /\ reauths <= 3
    /\ (LastOutcome = "expired" /\ reauths = NumOf("expired")) => ~GaveUp

=============================================================================
